---- MODULE Spec2Model ----
(***************************************************************************)
(* Model of svc2influxdb.py: the SeriesBuilder schema mapping, the SSH     *)
(* collectors' output parsing and the orchestration of one run (collect    *)
(* from every configured SVC, create the database, write the series).      *)
(*                                                                         *)
(* Text is modelled as TLA+ strings, read character by character; a dict   *)
(* is a function whose DOMAIN is the dict's key set; a list is a sequence. *)
(* An optional integer (fixed_time) is <<>> for None and <<t>> for t.      *)
(***************************************************************************)
EXTENDS Integers, Sequences, FiniteSets, TLC

\* ------------------------------------------------------------------------
\* Bounds of the explored inputs
\* ------------------------------------------------------------------------
MaxSvc == 2
MaxBatch == 3
MaxLines == 3

\* ------------------------------------------------------------------------
\* Generic helpers for dicts and lists
\* ------------------------------------------------------------------------
EmptyDict == [k \in {} |-> ""]

\* dict.update(u): keys of u are added or overwritten
Update(d, u) ==
    [k \in (DOMAIN d) \cup (DOMAIN u) |-> IF k \in DOMAIN u THEN u[k] ELSE d[k]]

Range(s) == {s[i] : i \in DOMAIN s}

RECURSIVE Flatten(_)
Flatten(ss) == IF ss = <<>> THEN <<>> ELSE Head(ss) \o Flatten(Tail(ss))

\* all sequences over S of length 0..n
SeqUpTo(S, n) == UNION {[1..k -> S] : k \in 0..n}

\* ------------------------------------------------------------------------
\* int(value) of the Python built-in, as used at line 82: surrounding
\* blanks are stripped, one optional sign, then decimal digits which may be
\* separated by single underscores.  Anything else raises ValueError.
\* ------------------------------------------------------------------------
Digits == {"0", "1", "2", "3", "4", "5", "6", "7", "8", "9"}

DigitVal(c) ==
    CASE c = "0" -> 0 [] c = "1" -> 1 [] c = "2" -> 2 [] c = "3" -> 3
      [] c = "4" -> 4 [] c = "5" -> 5 [] c = "6" -> 6 [] c = "7" -> 7
      [] c = "8" -> 8 [] c = "9" -> 9

RECURSIVE LStrip(_)
LStrip(s) == IF Len(s) > 0 /\ Head(s) = " " THEN LStrip(Tail(s)) ELSE s

RECURSIVE RStrip(_)
RStrip(s) ==
    IF Len(s) > 0 /\ SubSeq(s, Len(s), Len(s)) = " "
    THEN RStrip(SubSeq(s, 1, Len(s) - 1))
    ELSE s

Strip(s) == LStrip(RStrip(s))

Unsigned(s) ==
    IF Len(s) > 0 /\ Head(s) \in {"+", "-"} THEN Tail(s) ELSE s

\* digits, with single underscores allowed between two digits
IsDigitBody(b) ==
    /\ Len(b) > 0
    /\ \A i \in 1..Len(b) :
          \/ SubSeq(b, i, i) \in Digits
          \/ /\ SubSeq(b, i, i) = "_"
             /\ i > 1 /\ i < Len(b)
             /\ SubSeq(b, i - 1, i - 1) \in Digits
             /\ SubSeq(b, i + 1, i + 1) \in Digits

RECURSIVE BodyVal(_, _)
BodyVal(b, acc) ==
    IF Len(b) = 0 THEN acc
    ELSE IF Head(b) = "_" THEN BodyVal(Tail(b), acc)
    ELSE BodyVal(Tail(b), 10 * acc + DigitVal(Head(b)))

IsIntLiteral(s) == IsDigitBody(Unsigned(Strip(s)))

int(s) ==
    LET t == Strip(s)
        v == BodyVal(Unsigned(t), 0)
    IN  IF Head(t) = "-" THEN 0 - v ELSE v

\* ------------------------------------------------------------------------
\* SeriesBuilder
\* ------------------------------------------------------------------------
PoolMeasurements ==
    << "capacity", "virtual_capacity", "compression_compressed_capacity",
       "compression_uncompressed_capacity", "overallocation", "vdisk_count",
       "compression_virtual_capacity", "free_capacity", "real_capacity",
       "used_capacity" >>

PoolTags == << "name", "id" >>

VolumeMeasurements ==
    << "capacity", "virtual_capacity", "used_capacity", "real_capacity",
       "free_capacity", "uncompressed_used_capacity" >>

VolumeTags == << "name", "id", "vdisk_UID" >>

\* a builder object: its four attributes
PoolSeriesBuilder(fixed_time) ==
    [_extras_tags |-> EmptyDict, _fixed_time |-> fixed_time,
     _measurements |-> PoolMeasurements, _tags |-> PoolTags]

VolumeSeriesBuilder(fixed_time) ==
    [_extras_tags |-> EmptyDict, _fixed_time |-> fixed_time,
     _measurements |-> VolumeMeasurements, _tags |-> VolumeTags]

\* variant: the new tags are added to the ones already stored
add_extras_tags_merge(self, tags) ==
    [self EXCEPT !._extras_tags = Update(@, tags)]

add_extras_tags(self, tags) == [self EXCEPT !._extras_tags = tags]

\* truth value of "if self._fixed_time:": None and 0 are both false
FixedTimeIsTrue(ft) == ft # <<>> /\ ft[1] # 0

\* variant: the two parts of the measurement name are swapped
_build_series_swapped(self, measurement, tags, value, prefix) ==
    LET new_series == [measurement |-> measurement \o "_" \o prefix,
                       tags        |-> tags,
                       fields      |-> [value |-> int(value)]]
    IN  IF FixedTimeIsTrue(self._fixed_time)
        THEN Update(new_series, [time |-> self._fixed_time[1]])
        ELSE new_series

_build_series(self, measurement, tags, value, prefix) ==
    LET new_series == [measurement |-> prefix \o "_" \o measurement,
                       tags        |-> tags,
                       fields      |-> [value |-> int(value)]]
    IN  IF FixedTimeIsTrue(self._fixed_time)
        THEN Update(new_series, [time |-> self._fixed_time[1]])
        ELSE new_series

\* line 101: merged_tags.update({tag: data[tag] for tag in self._tags})
\* variant: the appliance tags are laid over the row's tags
merge_tags_extras_win(self, merged_tags, data) ==
    Update([tag \in Range(self._tags) |-> data[tag]], merged_tags)

merge_tags(self, merged_tags, data) ==
    Update(merged_tags, [tag \in Range(self._tags) |-> data[tag]])

\* the loop of parse from position i of self._measurements on; the result
\* is the list built so far, or the exception that ended the loop
RECURSIVE ParseLoop(_, _, _, _, _, _)
ParseLoop(self, data, prefix, i, merged_tags, series) ==
    IF i > Len(self._measurements)
    THEN [err |-> "", series |-> series]
    ELSE LET measurement == self._measurements[i]
         IN  IF measurement \notin DOMAIN data
             THEN ParseLoop(self, data, prefix, i + 1, merged_tags, series)
             ELSE IF ~ (Range(self._tags) \subseteq DOMAIN data)
             THEN [err |-> "KeyError", series |-> <<>>]
             ELSE IF ~ IsIntLiteral(data[measurement])
             THEN [err |-> "ValueError", series |-> <<>>]
             ELSE LET merged == merge_tags(self, merged_tags, data)
                  IN  ParseLoop(self, data, prefix, i + 1, merged,
                                Append(series,
                                       _build_series(self, measurement, merged,
                                                     data[measurement], prefix)))

parse(self, data, prefix) ==
    ParseLoop(self, data, prefix, 1, self._extras_tags, <<>>)

\* ------------------------------------------------------------------------
\* csv.reader / csv.DictReader over the lines of a command's stdout.  A line
\* is given without its line terminator; the explored outputs hold no quote
\* character, so a line splits at every comma.
\* ------------------------------------------------------------------------
RECURSIVE SplitComma(_, _, _)
SplitComma(s, cur, acc) ==
    IF Len(s) = 0 THEN Append(acc, cur)
    ELSE IF Head(s) = "," THEN SplitComma(Tail(s), "", Append(acc, cur))
    ELSE SplitComma(Tail(s), cur \o Head(s), acc)

\* one row of csv.reader: an empty line gives the empty list
CsvRow(line) == IF Len(line) = 0 THEN <<>> ELSE SplitComma(line, "", <<>>)

Min(a, b) == IF a < b THEN a ELSE b

\* dict(zip(fieldnames, row)): a later column of the same name wins
ZipDict(fieldnames, row) ==
    LET n == Min(Len(fieldnames), Len(row))
        last(k) == CHOOSE i \in 1..n :
                      fieldnames[i] = k /\ \A j \in (i + 1)..n : fieldnames[j] # k
    IN  [k \in {fieldnames[i] : i \in 1..n} |-> row[last(k)]]

RECURSIVE DictRows(_, _)
DictRows(fieldnames, lines) ==
    IF lines = <<>> THEN <<>>
    ELSE IF CsvRow(Head(lines)) = <<>> THEN DictRows(fieldnames, Tail(lines))
    ELSE <<ZipDict(fieldnames, CsvRow(Head(lines)))>>
            \o DictRows(fieldnames, Tail(lines))

\* csv.DictReader: the first line names the fields, blank rows are skipped
DictReader(stdout) ==
    IF stdout = <<>> THEN <<>>
    ELSE DictRows(CsvRow(Head(stdout)), Tail(stdout))

\* ------------------------------------------------------------------------
\* VolumeSSHCollector._get_volume_details, applied to the stdout of the
\* detail command: {line[0]: line[1] for line in reader if line}
\* ------------------------------------------------------------------------
\* one entry of the dict comprehension; a repeated key keeps the later value
\* variant: a repeated key keeps the earlier value
AddDetail_first_wins(acc, line) == Update([k \in {line[1]} |-> line[2]], acc)

AddDetail(acc, line) == Update(acc, [k \in {line[1]} |-> line[2]])

RECURSIVE DetailsLoop(_, _)
DetailsLoop(lines, acc) ==
    IF lines = <<>> THEN [err |-> "", details |-> acc]
    ELSE LET line == CsvRow(Head(lines))
         IN  IF line = <<>> THEN DetailsLoop(Tail(lines), acc)
             ELSE IF Len(line) < 2
             THEN [err |-> "IndexError", details |-> EmptyDict]
             ELSE DetailsLoop(Tail(lines), AddDetail(acc, line))

_get_volume_details(stdout) == DetailsLoop(stdout, EmptyDict)

\* ------------------------------------------------------------------------
\* ConfigFile.get_svc: what the generator yields for one section
\* ------------------------------------------------------------------------
NotTagItems == {"name", "address", "login", "password"}

get_svc(sec) ==
    [tags     |-> Update([svc |-> sec.section],
                         [item \in (DOMAIN sec.items) \ NotTagItems
                             |-> sec.items[item]]),
     address  |-> sec.items["address"],
     login    |-> sec.items["login"],
     password |-> sec.items["password"]]

\* ------------------------------------------------------------------------
\* The environment of a run: the configuration file, the clock and what
\* the appliances answer
\* ------------------------------------------------------------------------
Section(name, extra) ==
    [section |-> name,
     items   |-> Update([address |-> "10.0.0.1", login |-> "a", password |-> "b"],
                        extra)]

\* the SVC sections a configuration file may hold
SectionSet ==
    { Section("SVC1", [site |-> "dc1"]),
      Section("SVC2", [env |-> "prod", name |-> "two", id |-> "cfg"]),
      Section("SVC3", [site |-> "dc2", svc |-> "alias"]) }

\* a configuration file: up to MaxSvc sections of different names, in order
ConfigSet ==
    { c \in SeqUpTo(SectionSet, MaxSvc) :
         \A i, j \in DOMAIN c : i # j => c[i].section # c[j].section }

\* a value of timestamp_ms(), milliseconds since 1970
Clock == {1500}

PoolHeader == "name,id,capacity,free_capacity"
PoolLineSet == {"poolA,1,1000,400", "poolB,2,N/A,0"}
PoolOutputs == { <<PoolHeader>> \o rows : rows \in SeqUpTo(PoolLineSet, MaxBatch) }

VolumeHeader == "id,name"
VolumeLineSet == {"0,vol0", "1,vol1"}
VolumeOutputs ==
    { <<VolumeHeader>> \o rows : rows \in SeqUpTo(VolumeLineSet, MaxBatch) }

\* answers to the detail command of volume id: a full answer with the blank
\* line and the repeated field of the per-copy part, and one whose capacity
\* is not a number
DetailOutputs(id) ==
    { << "id," \o id, "name,vol" \o id, "vdisk_UID,600" \o id, "status,online",
         "capacity,2048", "", "copy_id,0", "status,offline",
         "used_capacity,512" >>,
      << "id," \o id, "name,vol" \o id, "vdisk_UID,600" \o id,
         "capacity,N/A" >> }

PoolCommand == "lsmdiskgrp -bytes -delim ,"
VolumeCommand == "lsvdisk -bytes -delim ,"
DetailCommand(identifier) == "lsvdisk -bytes -delim , " \o identifier

\* ------------------------------------------------------------------------
\* State
\* ------------------------------------------------------------------------
VARIABLES
    pc,                     \* position of the main program
    config,                 \* the SVC sections of the configuration file
    svc_i,                  \* number of sections the generator has yielded
    pool_series_builder,    \* the shared PoolSeriesBuilder
    volume_series_builder,  \* the shared VolumeSeriesBuilder
    sessions,               \* open SSH sessions, [svc, kind]
    listing,                \* rows of the volume listing being walked
    volume_details,         \* volume_details of VolumeSSHCollector.collect
    series,                 \* the batch: one list of points per row
    trace,                  \* connect/exec/parse/close/sink events so far
    writes,                 \* the points argument of every write_points call
    exit_status,            \* <<>> while running, <<status>> once ended
    call,                   \* input of a stand-alone call of parse / details
    ret                     \* its result

vars == << pc, config, svc_i, pool_series_builder, volume_series_builder,
           sessions, listing, volume_details, series, trace, writes,
           exit_status, call, ret >>

NoCall == [fn |-> "none"]

\* the appliances of one run list at most MaxBatch rows in all
FitsBatch(stdout) == Len(series) + Len(stdout) - 1 <= MaxBatch

Event(op, kind, arg) == [op |-> op, svc |-> svc_i, kind |-> kind, arg |-> arg]

\* lines 213-229: arguments, the clock, the two builders, the empty batch
Init ==
    /\ pc = "loop"
    /\ config \in ConfigSet
    /\ svc_i = 0
    /\ \E fixed \in BOOLEAN, now \in Clock :
          LET fixed_time == IF fixed THEN <<now>> ELSE <<>>
          IN  /\ pool_series_builder = PoolSeriesBuilder(fixed_time)
              /\ volume_series_builder = VolumeSeriesBuilder(fixed_time)
    /\ sessions = {}
    /\ listing = <<>>
    /\ volume_details = <<>>
    /\ series = <<>>
    /\ trace = <<>>
    /\ writes = <<>>
    /\ exit_status = <<>>
    /\ call = NoCall
    /\ ret = NoCall

\* the process ends: sys.exit(status) or an uncaught exception (status 1);
\* its connections end with it
Exit(status, ev) ==
    /\ pc' = "done"
    /\ exit_status' = <<status>>
    /\ sessions' = {}
    /\ trace' = trace \o ev

\* lines 230-232: the generator yields the next section, both builders get
\* its tags
NextSvc ==
    /\ pc = "loop"
    /\ svc_i < Len(config)
    /\ LET svc == get_svc(config[svc_i + 1])
       IN  /\ pool_series_builder' = add_extras_tags(pool_series_builder, svc.tags)
           /\ volume_series_builder' =
                 add_extras_tags(volume_series_builder, svc.tags)
    /\ svc_i' = svc_i + 1
    /\ pc' = "open_pool"
    /\ UNCHANGED << config, sessions, listing, volume_details, series, trace,
                    writes, exit_status, call, ret >>

\* variant: a failed connection is reported and the run goes on
Connect_skip(kind, next) ==
    \E outcome \in {"ok", "AuthenticationException", "TimeoutError"} :
       /\ IF outcome = "ok"
          THEN /\ sessions' = sessions \cup {[svc |-> svc_i, kind |-> kind]}
               /\ trace' = Append(trace, Event("connect", kind, ""))
          ELSE /\ trace' = Append(trace, Event("connect_failed", kind, outcome))
               /\ UNCHANGED sessions
       /\ pc' = next
       /\ UNCHANGED << config, svc_i, pool_series_builder, volume_series_builder,
                       listing, volume_details, series, writes, exit_status,
                       call, ret >>

\* SSHCollector.__init__ (lines 149-166) for the collector of the given kind
Connect(kind, next) ==
    \E outcome \in {"ok", "AuthenticationException", "TimeoutError"} :
       /\ IF outcome = "ok"
          THEN /\ sessions' = sessions \cup {[svc |-> svc_i, kind |-> kind]}
               /\ trace' = Append(trace, Event("connect", kind, ""))
               /\ pc' = next
               /\ UNCHANGED exit_status
          ELSE Exit(1, <<Event("connect_failed", kind, outcome)>>)
       /\ UNCHANGED << config, svc_i, pool_series_builder, volume_series_builder,
                       listing, volume_details, series, writes, call, ret >>

\* line 234
OpenPool == pc = "open_pool" /\ Connect("pool", "open_volume")

\* line 235 (and 237-238, which only bind the builders)
OpenVolume == pc = "open_volume" /\ Connect("volume", "collect_pool")

\* the list comprehension [builder.parse(line, prefix) for line in rows]:
\* the lists of the rows parsed before the first exception, and that exception
RECURSIVE ParseAll(_, _, _, _)
ParseAll(builder, rows, prefix, acc) ==
    IF rows = <<>> THEN [err |-> "", result |-> acc]
    ELSE LET r == parse(builder, Head(rows), prefix)
         IN  IF r.err # "" THEN [err |-> r.err, result |-> acc]
             ELSE ParseAll(builder, Tail(rows), prefix, Append(acc, r.series))

ParseEvents(kind, n) == [i \in 1..n |-> Event("parse", kind, "")]

\* line 240: PoolSSHCollector.collect (lines 185-188) and series +=
CollectPool ==
    /\ pc = "collect_pool"
    /\ \E stdout \in {o \in PoolOutputs : FitsBatch(o)} :
          LET r  == ParseAll(pool_series_builder, DictReader(stdout), "pool", <<>>)
              ev == <<Event("exec", "pool", PoolCommand)>>
                       \o ParseEvents("pool", Len(r.result))
          IN  IF r.err = ""
              THEN /\ series' = series \o r.result
                   /\ trace' = trace \o ev
                   /\ pc' = "del_pool"
                   /\ UNCHANGED << sessions, exit_status >>
              ELSE /\ Exit(1, ev \o <<Event("exception", "pool", r.err)>>)
                   /\ UNCHANGED series
    /\ UNCHANGED << config, svc_i, pool_series_builder, volume_series_builder,
                    listing, volume_details, writes, call, ret >>

\* variant: the collector is not deleted
Del_keep(kind, next) ==
    /\ trace' = Append(trace, Event("close", kind, ""))
    /\ pc' = next
    /\ UNCHANGED << config, svc_i, pool_series_builder, volume_series_builder,
                    sessions, listing, volume_details, series, writes,
                    exit_status, call, ret >>

\* "del svc_pool" / "del svc_volume": the last reference to the collector
\* goes, and its SSH client is closed with it
Del(kind, next) ==
    /\ sessions' = sessions \ {[svc |-> svc_i, kind |-> kind]}
    /\ trace' = Append(trace, Event("close", kind, ""))
    /\ pc' = next
    /\ UNCHANGED << config, svc_i, pool_series_builder, volume_series_builder,
                    listing, volume_details, series, writes, exit_status,
                    call, ret >>

\* line 241
DelPool == pc = "del_pool" /\ Del("pool", "collect_volume")

\* lines 203-206: the listing command of VolumeSSHCollector.collect
VolumeList ==
    /\ pc = "collect_volume"
    /\ \E stdout \in {o \in VolumeOutputs : FitsBatch(o)} :
          /\ listing' = DictReader(stdout)
          /\ volume_details' = <<>>
          /\ trace' = Append(trace, Event("exec", "volume", VolumeCommand))
          /\ pc' = "detail"
    /\ UNCHANGED << config, svc_i, pool_series_builder, volume_series_builder,
                    sessions, series, writes, exit_status, call, ret >>

\* variant: every detail answer is parsed as soon as it is read
VolumeDetail_eager ==
    /\ pc = "detail"
    /\ Len(volume_details) < Len(listing)
    /\ LET id == listing[Len(volume_details) + 1]["id"]
       IN  \E stdout \in DetailOutputs(id) :
              LET d == _get_volume_details(stdout)
              IN  /\ volume_details' = Append(volume_details, d.details)
                  /\ trace' = trace \o <<Event("exec", "volume", DetailCommand(id)),
                                         Event("parse", "volume", "")>>
    /\ UNCHANGED << pc, config, svc_i, pool_series_builder,
                    volume_series_builder, sessions, listing, series, writes,
                    exit_status, call, ret >>

\* lines 207-208: one turn of the loop over the listing
VolumeDetail ==
    /\ pc = "detail"
    /\ Len(volume_details) < Len(listing)
    /\ LET id == listing[Len(volume_details) + 1]["id"]
       IN  \E stdout \in DetailOutputs(id) :
              LET d  == _get_volume_details(stdout)
                  ev == <<Event("exec", "volume", DetailCommand(id))>>
              IN  IF d.err = ""
                  THEN /\ volume_details' = Append(volume_details, d.details)
                       /\ trace' = trace \o ev
                       /\ UNCHANGED << pc, sessions, exit_status >>
                  ELSE /\ Exit(1, ev \o <<Event("exception", "volume", d.err)>>)
                       /\ UNCHANGED volume_details
    /\ UNCHANGED << config, svc_i, pool_series_builder, volume_series_builder,
                    listing, series, writes, call, ret >>

\* line 210 and line 242: the details are parsed, series +=
VolumeParse ==
    /\ pc = "detail"
    /\ Len(volume_details) = Len(listing)
    /\ LET r  == ParseAll(volume_series_builder, volume_details, "volume", <<>>)
           ev == ParseEvents("volume", Len(r.result))
       IN  IF r.err = ""
           THEN /\ series' = series \o r.result
                /\ trace' = trace \o ev
                /\ pc' = "del_volume"
                /\ UNCHANGED << sessions, exit_status >>
           ELSE /\ Exit(1, ev \o <<Event("exception", "volume", r.err)>>)
                /\ UNCHANGED series
    /\ UNCHANGED << config, svc_i, pool_series_builder, volume_series_builder,
                    listing, volume_details, writes, call, ret >>

\* line 243
DelVolume == pc = "del_volume" /\ Del("volume", "loop")

\* lines 245-249, once the generator is exhausted
CreateDatabase ==
    /\ pc = "loop"
    /\ svc_i = Len(config)
    /\ \E reachable \in BOOLEAN :
          IF reachable
          THEN /\ trace' = Append(trace, Event("create_database", "sink", ""))
               /\ pc' = "flush"
               /\ UNCHANGED << sessions, exit_status >>
          ELSE Exit(1, <<Event("create_database_failed", "sink",
                               "ConnectionError")>>)
    /\ UNCHANGED << config, svc_i, pool_series_builder, volume_series_builder,
                    listing, volume_details, series, writes, call, ret >>

\* variant: the batch is written from its end
WritePoints_reversed ==
    /\ pc = "flush"
    /\ Len(writes) < Len(series)
    /\ writes' = Append(writes, series[Len(series) - Len(writes)])
    /\ trace' = Append(trace, Event("write_points", "sink", ""))
    /\ UNCHANGED << pc, config, svc_i, pool_series_builder,
                    volume_series_builder, sessions, listing, volume_details,
                    series, exit_status, call, ret >>

\* lines 253-254: one turn of the write loop; an exception of write_points
\* is not caught
WritePoints ==
    /\ pc = "flush"
    /\ Len(writes) < Len(series)
    /\ LET serie == series[Len(writes) + 1]
       IN  /\ writes' = Append(writes, serie)
           /\ \E ok \in BOOLEAN :
                 IF ok
                 THEN /\ trace' = Append(trace, Event("write_points", "sink", ""))
                      /\ UNCHANGED << pc, sessions, exit_status >>
                 ELSE Exit(1, <<Event("write_points_failed", "sink",
                                      "ConnectionError")>>)
    /\ UNCHANGED << config, svc_i, pool_series_builder, volume_series_builder,
                    listing, volume_details, series, call, ret >>

\* the write loop is over and the program ends normally
Finish ==
    /\ pc = "flush"
    /\ Len(writes) = Len(series)
    /\ Exit(0, <<>>)
    /\ UNCHANGED << config, svc_i, pool_series_builder, volume_series_builder,
                    listing, volume_details, series, writes, call, ret >>

Next ==
    \/ NextSvc
    \/ OpenPool
    \/ OpenVolume
    \/ CollectPool
    \/ DelPool
    \/ VolumeList
    \/ VolumeDetail
    \/ VolumeParse
    \/ DelVolume
    \/ CreateDatabase
    \/ WritePoints
    \/ Finish

Spec == Init /\ [][Next]_vars

TypeOK ==
    /\ pc \in {"loop", "open_pool", "open_volume", "collect_pool", "del_pool",
               "collect_volume", "detail", "del_volume", "flush", "done",
               "call", "returned"}
    /\ svc_i \in 0..Len(config)
    /\ Len(writes) <= Len(series)

\* ------------------------------------------------------------------------
\* Stand-alone calls of SeriesBuilder.parse and of _get_volume_details:
\* the inputs are drawn in the initial state, one action applies the call
\* ------------------------------------------------------------------------
\* the fixed_time argument of a builder: None, or any integer
FixedTimes == {<<>>, <<0>>} \cup {<<t>> : t \in Clock}

ExtrasSet ==
    { EmptyDict,
      [svc |-> "SVC1", site |-> "dc1"],
      [svc |-> "SVC2", env |-> "prod", id |-> "cfg"] }

BuilderSet ==
    { add_extras_tags(b, extras) :
         b \in {PoolSeriesBuilder(ft) : ft \in FixedTimes}
                  \cup {VolumeSeriesBuilder(ft) : ft \in FixedTimes},
         extras \in ExtrasSet }

\* what int() is expected to give for the texts used as measurement values
ExpectedInt ==
    [v \in {"0", "-7", " 42 ", "1_000"} |->
        CASE v = "0" -> 0 [] v = "-7" -> 0 - 7 [] v = " 42 " -> 42
          [] v = "1_000" -> 1000]

ValueSet == (DOMAIN ExpectedInt) \cup {"N/A"}

RowTagsSet ==
    { [name |-> "poolA", id |-> "1", vdisk_UID |-> "6005"],
      [name |-> "poolA", vdisk_UID |-> "6005"] }

RowMeasurementNames == {"capacity", "free_capacity", "uncompressed_used_capacity"}

RowSet ==
    { Update(t, m) :
         t \in RowTagsSet,
         m \in UNION {[ks -> ValueSet] : ks \in SUBSET RowMeasurementNames} }

PrefixOf(builder) ==
    IF builder._measurements = PoolMeasurements THEN "pool" ELSE "volume"

ParseCalls ==
    { [fn |-> "parse", self |-> b, data |-> d, prefix |-> PrefixOf(b)] :
         b \in BuilderSet, d \in RowSet }

\* the lines of a detail answer: blank, or fieldName,value
EntrySet ==
    { <<>>, <<"id", "1">>, <<"capacity", "1024">>, <<"capacity", "2048">>,
      <<"name", "vol1">>, <<"mdisk_id", "">> }

LineOf(entry) == IF entry = <<>> THEN "" ELSE entry[1] \o "," \o entry[2]

DetailsCalls ==
    { [fn |-> "details", entries |-> es,
       stdout |-> [i \in DOMAIN es |-> LineOf(es[i])]] :
         es \in SeqUpTo(EntrySet, MaxLines) }

InitPure ==
    /\ pc = "call"
    /\ config = <<>>
    /\ svc_i = 0
    /\ pool_series_builder = PoolSeriesBuilder(<<>>)
    /\ volume_series_builder = VolumeSeriesBuilder(<<>>)
    /\ sessions = {}
    /\ listing = <<>>
    /\ volume_details = <<>>
    /\ series = <<>>
    /\ trace = <<>>
    /\ writes = <<>>
    /\ exit_status = <<>>
    /\ call \in ParseCalls \cup DetailsCalls
    /\ ret = NoCall

CallParse ==
    /\ pc = "call"
    /\ call.fn = "parse"
    /\ ret' = parse(call.self, call.data, call.prefix)
    /\ pc' = "returned"
    /\ UNCHANGED << config, svc_i, pool_series_builder, volume_series_builder,
                    sessions, listing, volume_details, series, trace, writes,
                    exit_status, call >>

CallDetails ==
    /\ pc = "call"
    /\ call.fn = "details"
    /\ ret' = _get_volume_details(call.stdout)
    /\ pc' = "returned"
    /\ UNCHANGED << config, svc_i, pool_series_builder, volume_series_builder,
                    sessions, listing, volume_details, series, trace, writes,
                    exit_status, call >>

NextPure == CallParse \/ CallDetails

SpecPure == InitPure /\ [][NextPure]_vars

Returned(fn) == pc = "returned" /\ call.fn = fn

\* ------------------------------------------------------------------------
\* Properties of the stand-alone calls (checked under SpecPure)
\* ------------------------------------------------------------------------
\* the row has every tag field of the schema, and its values under the
\* schema's measurement names are integer texts
SchemaOK(c) ==
    /\ Range(c.self._tags) \subseteq DOMAIN c.data
    /\ \A m \in Range(c.self._measurements) \cap DOMAIN c.data :
          c.data[m] \in DOMAIN ExpectedInt

\* the schema's measurement names that are keys of the row, in schema order
PresentMeasurements(c) ==
    LET Present(m) == m \in DOMAIN c.data
    IN  SelectSeq(c.self._measurements, Present)

\* C1: for a row with all tag fields and integer measurement values, parse
\* returns one point per schema measurement name that is a key of the row,
\* none for the others, in schema order, named <prefix>_<name>, with
\* fields {value: int(row[name])}.
C1_OnePointPerPresentMeasurement ==
    (Returned("parse") /\ SchemaOK(call)) =>
        LET present == PresentMeasurements(call)
        IN  /\ ret.err = ""
            /\ Len(ret.series) = Len(present)
            /\ \A i \in DOMAIN present :
                  /\ ret.series[i].measurement = call.prefix \o "_" \o present[i]
                  /\ ret.series[i].fields =
                        [value |-> ExpectedInt[call.data[present[i]]]]

\* a pool row with two pool measurements, read with blanks and an
\* underscore, and one key that is no pool measurement
C1_Witness ==
    /\ Returned("parse")
    /\ SchemaOK(call)
    /\ call.prefix = "pool"
    /\ DOMAIN call.data = {"name", "id", "vdisk_UID", "capacity", "free_capacity",
                           "uncompressed_used_capacity"}
    /\ call.data["capacity"] = " 42 "
    /\ call.data["free_capacity"] = "1_000"
    /\ Len(ret.series) = 2
    /\ ret.series[1].measurement = "pool_capacity"
    /\ ret.series[1].fields.value = 42
    /\ ret.series[2].measurement = "pool_free_capacity"
    /\ ret.series[2].fields.value = 1000

\* C2: the tags of every point returned by parse are the builder's extra
\* tags overlaid with {tag: row[tag]} for the schema's tag names: the row's
\* value wins on a shared key, the other extra tags keep their value.
C2_RowTagsOverlayExtras ==
    Returned("parse") =>
        \A i \in DOMAIN ret.series :
           LET t      == ret.series[i].tags
               extras == call.self._extras_tags
               names  == Range(call.self._tags)
           IN  /\ DOMAIN t = (DOMAIN extras) \cup names
               /\ \A k \in DOMAIN t :
                     t[k] = IF k \in names THEN call.data[k] ELSE extras[k]

\* extra tags with the key id, which is also a tag field of the row
C2_Witness ==
    /\ Returned("parse")
    /\ Len(ret.series) > 0
    /\ call.self._extras_tags = [svc |-> "SVC2", env |-> "prod", id |-> "cfg"]
    /\ ret.series[1].tags["id"] = "1"
    /\ ret.series[1].tags["env"] = "prod"
    /\ ret.series[1].tags["svc"] = "SVC2"

\* C3: a point carries a timestamp if and only if a fixed timestamp was
\* configured on its builder, and then that value; for every integer
\* timestamp, 0 included.
C3_TimestampIffConfigured ==
    Returned("parse") =>
        \A i \in DOMAIN ret.series :
           LET p  == ret.series[i]
               ft == call.self._fixed_time
           IN  /\ ("time" \in DOMAIN p) <=> (ft # <<>>)
               /\ ("time" \in DOMAIN p) => p["time"] = ft[1]

\* the positions of the lines that are not blank
NonBlank(es) == {i \in DOMAIN es : es[i] # <<>>}

\* C8 as stated: one entry fieldName -> value per line that is not blank
C8_OneEntryPerLine ==
    Returned("details") =>
        LET nb == NonBlank(call.entries)
        IN  /\ ret.err = ""
            /\ Cardinality(DOMAIN ret.details) = Cardinality(nb)
            /\ \A i \in nb :
                  /\ call.entries[i][1] \in DOMAIN ret.details
                  /\ ret.details[call.entries[i][1]] = call.entries[i][2]

\* C8: for lines that are empty or fieldName,value, _get_volume_details
\* returns without error the mapping whose keys are the field names of the
\* non-empty lines, each with the value of the last line of that name (one
\* entry per line when the names differ); empty lines add nothing.
C8_LastValuePerField ==
    Returned("details") =>
        LET es == call.entries
            nb == NonBlank(es)
            LastOf(k) == CHOOSE i \in nb :
                            es[i][1] = k /\ \A j \in nb : es[j][1] = k => j <= i
        IN  /\ ret.err = ""
            /\ DOMAIN ret.details = {es[i][1] : i \in nb}
            /\ \A k \in DOMAIN ret.details : ret.details[k] = es[LastOf(k)][2]
            /\ (\A i, j \in nb : i # j => es[i][1] # es[j][1])
                  => Cardinality(DOMAIN ret.details) = Cardinality(nb)

\* a blank line between two lines of the same field name
C8_Witness ==
    /\ Returned("details")
    /\ call.stdout = << "capacity,1024", "", "capacity,2048" >>
    /\ ret.err = ""
    /\ ret.details = [capacity |-> "2048"]

\* ------------------------------------------------------------------------
\* Properties of a run (checked under Spec)
\* ------------------------------------------------------------------------
\* the parse events so far: the i-th one built the i-th element of series
ParseTrace ==
    LET IsParse(e) == e.op = "parse" IN SelectSeq(trace, IsParse)

FatalOps == {"connect_failed", "exception", "create_database_failed"}

SinkWriteOps == {"write_points", "write_points_failed"}

\* C4: a failed connection (authentication, timeout), a value that is no
\* integer, or an unreachable sink at create_database ends the run at once
\* with a failing status: nothing follows the failure, no further command
\* is sent and no point is written, whatever was collected before.
C4_FatalEndsRunWithoutWrite ==
    \A i \in DOMAIN trace :
       trace[i].op \in FatalOps =>
          /\ i = Len(trace)
          /\ pc = "done"
          /\ exit_status = <<1>>
          /\ writes = <<>>
          /\ \A j \in DOMAIN trace : trace[j].op \notin SinkWriteOps

\* the second appliance answers a value that is no integer after the first
\* one was collected
C4_Witness ==
    /\ pc = "done"
    /\ svc_i = 2
    /\ Len(series) > 0
    /\ trace[Len(trace)].op = "exception"
    /\ trace[Len(trace)].arg = "ValueError"
    /\ trace[Len(trace)].svc = 2

\* C5 as stated: every write call carries exactly one point, and a run that
\* ends normally has made as many calls as points were collected
C5_OnePointPerCall ==
    /\ \A i \in DOMAIN writes : Len(writes[i]) = 1
    /\ exit_status = <<0>> => Len(writes) = Len(Flatten(series))

\* C5: the batch is written one row at a time, in batch order: the i-th
\* write call carries the list of points built from the i-th collected row;
\* a run that ends normally has made one call per collected row and has
\* passed every collected point exactly once.
C5_OneRowPerCall ==
    /\ Len(writes) <= Len(series)
    /\ \A i \in DOMAIN writes : writes[i] = series[i]
    /\ exit_status = <<0>> =>
          /\ Len(writes) = Len(ParseTrace)
          /\ Flatten(writes) = Flatten(series)

\* a normal end after two appliances, the first call carrying two points
C5_Witness ==
    /\ exit_status = <<0>>
    /\ svc_i = 2
    /\ Len(writes) >= 3
    /\ Len(writes[1]) = 2
    /\ writes[1] # writes[Len(writes)]

\* C6: when the run has ended, a write was attempted for every element of
\* the batch or for none.
C6_AllOrNothing ==
    pc = "done" => (Len(writes) = 0 \/ Len(writes) = Len(series))

RowTagNames(kind) == IF kind = "pool" THEN Range(PoolTags) ELSE Range(VolumeTags)

ConnectionItems == {"address", "login", "password"}

\* the tags a point takes from its row all come from one row of the answers
RowTagsOfOneRow(p, kind) ==
    IF kind = "pool"
    THEN <<p.tags["name"], p.tags["id"]>> \in {<<"poolA", "1">>, <<"poolB", "2">>}
    ELSE /\ p.tags["name"] = "vol" \o p.tags["id"]
         /\ p.tags["vdisk_UID"] = "600" \o p.tags["id"]

\* the tags of point p, built by the i-th parse, come from its own section
\* only; svcTag is the value expected under the key svc
TagsFromOwnSection(p, i, svcTag(_)) ==
    LET sec     == config[ParseTrace[i].svc]
        rowtags == RowTagNames(ParseTrace[i].kind)
        extra   == (DOMAIN sec.items) \ ConnectionItems
    IN  /\ p.tags["svc"] = svcTag(sec)
        /\ \A k \in extra :
              /\ k \in DOMAIN p.tags
              /\ k \notin rowtags \cup {"svc"} => p.tags[k] = sec.items[k]
        /\ DOMAIN p.tags \subseteq {"svc"} \cup rowtags \cup extra
        /\ RowTagsOfOneRow(p, ParseTrace[i].kind)

SectionName(sec) == sec.section

SvcItemOrSectionName(sec) ==
    IF "svc" \in DOMAIN sec.items THEN sec.items["svc"] ELSE sec.section

\* C7 as stated: the tag svc is always the section name
C7_SvcIsSectionName ==
    \A i \in DOMAIN series : \A j \in DOMAIN series[i] :
       TagsFromOwnSection(series[i][j], i, SectionName)

\* C7: every point of appliance A carries svc = A's section name (or, when
\* A's section has a key svc of its own, that key's value) and one tag per
\* further key of A's section other than address, login and password, with
\* A's value unless a row tag of the same key overrides it; it carries no
\* key or value of another section or of an earlier row.
C7_TagsOfOwnSection ==
    \A i \in DOMAIN series : \A j \in DOMAIN series[i] :
       TagsFromOwnSection(series[i][j], i, SvcItemOrSectionName)

\* a volume point of SVC2, collected after SVC1 whose section has the key
\* site: it has SVC2's env and no site, and the row's id, not the section's
C7_Witness ==
    /\ Len(config) = 2
    /\ config[1].section = "SVC1"
    /\ config[2].section = "SVC2"
    /\ Len(series) > 0
    /\ ParseTrace[Len(series)].svc = 2
    /\ ParseTrace[Len(series)].kind = "volume"
    /\ LET p == series[Len(series)][1]
       IN  /\ p.tags["svc"] = "SVC2"
           /\ p.tags["env"] = "prod"
           /\ "site" \notin DOMAIN p.tags
           /\ p.tags["id"] \in {"0", "1"}

PoolSession == [svc |-> svc_i, kind |-> "pool"]
VolumeSession == [svc |-> svc_i, kind |-> "volume"]

VolumeEvents(s) ==
    LET Mine(e) == e.svc = s /\ e.kind = "volume" /\ e.op \in {"exec", "parse"}
    IN  SelectSeq(trace, Mine)

\* C10: for a listing of N rows the volume collector sends N+1 commands, one
\* after the other: the listing command, then one detail command per row
\* with that row's id, in listing order; no row is parsed before the last
\* detail command was sent, and the results come in listing order.
C10_ListThenDetailsThenParse ==
    (svc_i > 0 /\ VolumeEvents(svc_i) # <<>>) =>
        LET evs    == VolumeEvents(svc_i)
            IsExec(e) == e.op = "exec"
            execs  == SelectSeq(evs, IsExec)
            nparse == Len(evs) - Len(execs)
            N      == Len(listing)
        IN  /\ \A i \in 1..Len(execs) : evs[i].op = "exec"
            /\ execs[1].arg = "lsvdisk -bytes -delim ,"
            /\ Len(execs) <= N + 1
            /\ \A j \in 2..Len(execs) :
                  execs[j].arg = "lsvdisk -bytes -delim , " \o listing[j - 1]["id"]
            /\ nparse > 0 => Len(execs) = N + 1
            /\ pc = "del_volume" =>
                  /\ Len(execs) = N + 1
                  /\ nparse = N
                  /\ \A j \in 1..N :
                        \A p \in Range(series[Len(series) - N + j]) :
                           p.tags["id"] = listing[j]["id"]

\* a listing of two volumes, id 1 before id 0, collected and parsed
C10_Witness ==
    /\ pc = "del_volume"
    /\ Len(listing) = 2
    /\ listing[1]["id"] = "1"
    /\ listing[2]["id"] = "0"
    /\ Len(VolumeEvents(svc_i)) = 5

====
